---- MODULE Spec2Model ----
(***************************************************************************)
(* Model of the packaging manifest setup.py of deisseroth-lab/patchclamp.   *)
(*                                                                          *)
(* The manifest is a straight-line script of three statements:              *)
(*   line 1      from setuptools import find_packages                       *)
(*   line 2      from setuptools import setup                               *)
(*   lines 4-17  setup(name=..., version=..., author=...,                   *)
(*                     packages=find_packages(), install_requires=[...])    *)
(* Its only input is the directory the manifest sits in, which              *)
(* find_packages() scans.  A requirement string is modelled as the          *)
(* sequence of its characters, so that "bare name" is a property of the     *)
(* text and not of a label.                                                 *)
(***************************************************************************)
EXTENDS Naturals, Sequences, FiniteSets

VARIABLES pc, namespace, tree, dist, setup_calls

vars == <<pc, namespace, tree, dist, setup_calls>>

\* Number of top-level directories beside the manifest that the model varies.
MaxDirs == 2

----------------------------------------------------------------------------
\* The manifest's directory (the environment find_packages() reads).

\* A directory is absent, present without __init__.py, or present with one.
DirStatus == {"absent", "plain", "package"}

\* Each top-level directory, and the one subdirectory modelled inside it.
\* A subdirectory exists only inside an existing directory.
DirEntries ==
    { e \in [top : DirStatus, sub : DirStatus] :
        e.top = "absent" => e.sub = "absent" }

Trees == [1..MaxDirs -> DirEntries]

\* A directory with no __init__.py anywhere: the repository as given
\* (it holds setup.py and nothing that is a package).
NoPackageDir(t) ==
    \A i \in DOMAIN t : t[i].top # "package" /\ t[i].sub # "package"

----------------------------------------------------------------------------
\* The string literals of the manifest, character by character.

patchclamp_name == "patchclamp"
version_literal == "0.1"
author_literal == "Eamon Byrne"

numpy == <<"n", "u", "m", "p", "y">>
pandas == <<"p", "a", "n", "d", "a", "s">>
scipy == <<"s", "c", "i", "p", "y">>
pyabf == <<"p", "y", "a", "b", "f">>
glob == <<"g", "l", "o", "b">>
seaborn == <<"s", "e", "a", "b", "o", "r", "n">>
matplotlib == <<"m", "a", "t", "p", "l", "o", "t", "l", "i", "b">>

\* Mutant of InstallRequires: one entry carries a version specifier.
InstallRequiresPinned ==
    << numpy \o <<">", "=", "1", ".", "0">>, pandas, scipy, pyabf, glob,
       seaborn, matplotlib >>

\* install_requires=[...], lines 8-16, in the order written.
InstallRequires ==
    << numpy, pandas, scipy, pyabf, glob, seaborn, matplotlib >>

----------------------------------------------------------------------------
\* find_packages(), called with no argument at line 7: the dotted names of
\* the directories under the manifest's directory that hold an __init__.py,
\* descending only into directories that are packages themselves.
\* <<i>> is top-level directory i, <<i, 1>> its subdirectory.
find_packages(t) ==
    { <<i>> : i \in { j \in DOMAIN t : t[j].top = "package" } }
    \cup
    { <<i, 1>> : i \in { j \in DOMAIN t : t[j].top = "package"
                                          /\ t[j].sub = "package" } }

\* Mutant of SetupKwargs: the package list is written out by hand.
SetupKwargsHardcodedPackages ==
    [ name |-> patchclamp_name,
      version |-> version_literal,
      author |-> author_literal,
      packages |-> {<<1>>},
      install_requires |-> InstallRequires ]

\* Mutant of SetupKwargs: the name is taken from what find_packages() found.
SetupKwargsNameFromTree ==
    [ name |-> IF find_packages(tree) = {} THEN patchclamp_name ELSE "UNKNOWN",
      version |-> version_literal,
      author |-> author_literal,
      packages |-> find_packages(tree),
      install_requires |-> InstallRequires ]

\* Mutant of SetupKwargs: a console script is declared.
SetupKwargsWithEntryPoints ==
    [ name |-> patchclamp_name,
      version |-> version_literal,
      author |-> author_literal,
      packages |-> find_packages(tree),
      install_requires |-> InstallRequires,
      entry_points |-> {"patchclamp"} ]

\* The keyword arguments of the setup() call, lines 4-16.
SetupKwargs ==
    [ name |-> patchclamp_name,
      version |-> version_literal,
      author |-> author_literal,
      packages |-> find_packages(tree),
      install_requires |-> InstallRequires ]

\* The distribution before setup() has been called.
NoDist == [ name |-> "" ]

----------------------------------------------------------------------------
\* Execution of the manifest.

Init ==
    /\ pc = "import_find_packages"
    /\ namespace = {}
    /\ tree \in Trees
    /\ dist = NoDist
    /\ setup_calls = 0

\* Line 1: from setuptools import find_packages
ImportFindPackages ==
    /\ pc = "import_find_packages"
    /\ namespace' = namespace \cup {"find_packages"}
    /\ pc' = "import_setup"
    /\ UNCHANGED <<tree, dist, setup_calls>>

\* Line 2: from setuptools import setup
ImportSetup ==
    /\ pc = "import_setup"
    /\ namespace' = namespace \cup {"setup"}
    /\ pc' = "call_setup"
    /\ UNCHANGED <<tree, dist, setup_calls>>

\* Mutant of CallSetup: the call is retried once.
CallSetupRetried ==
    /\ pc = "call_setup"
    /\ {"find_packages", "setup"} \subseteq namespace
    /\ dist' = SetupKwargs
    /\ setup_calls' = setup_calls + 1
    /\ pc' = IF setup_calls = 0 THEN "call_setup" ELSE "done"
    /\ UNCHANGED <<tree, namespace>>

\* Lines 4-17: the setup(...) call, the last statement of the script.
CallSetup ==
    /\ pc = "call_setup"
    /\ {"find_packages", "setup"} \subseteq namespace
    /\ dist' = SetupKwargs
    /\ setup_calls' = setup_calls + 1
    /\ pc' = "done"
    /\ UNCHANGED <<tree, namespace>>

Next ==
    \/ ImportFindPackages
    \/ ImportSetup
    \/ CallSetup

Spec == Init /\ [][Next]_vars

----------------------------------------------------------------------------
\* Vocabulary of the properties: reading a requirement string, and the
\* keywords that declare commands.

\* The characters a distribution name is written with.
NameChars ==
    { "a", "b", "c", "d", "e", "f", "g", "h", "i", "j", "k", "l", "m",
      "n", "o", "p", "q", "r", "s", "t", "u", "v", "w", "x", "y", "z",
      "A", "B", "C", "D", "E", "F", "G", "H", "I", "J", "K", "L", "M",
      "N", "O", "P", "Q", "R", "S", "T", "U", "V", "W", "X", "Y", "Z",
      "0", "1", "2", "3", "4", "5", "6", "7", "8", "9", ".", "-", "_" }

\* Length of the leading run of name characters of requirement r.
NameLen(r) ==
    IF \A i \in 1..Len(r) : r[i] \in NameChars
    THEN Len(r)
    ELSE (CHOOSE i \in 1..Len(r) :
             /\ r[i] \notin NameChars
             /\ \A j \in 1..(i - 1) : r[j] \in NameChars) - 1

\* The distribution name a requirement starts with, and what follows it
\* (an extra, a version specifier, a marker, a URL).
RequirementName(r) == SubSeq(r, 1, NameLen(r))
RequirementRest(r) == SubSeq(r, NameLen(r) + 1, Len(r))

Range(q) == { q[i] : i \in DOMAIN q }

\* The keywords through which a setup() call declares executable commands.
CommandKeywords == {"entry_points", "scripts", "console_scripts"}

\* The commands a distribution registers: what it was given under any of
\* the command keywords.
RegisteredCommands(d) ==
    UNION { IF k \in DOMAIN d THEN d[k] ELSE {} : k \in CommandKeywords }

\* The six libraries the specification enumerates.
EnumeratedLibraries == {numpy, pandas, scipy, pyabf, seaborn, matplotlib}

----------------------------------------------------------------------------
\* C1: once setup() has been called, the set of names in install_requires
\* is exactly the six enumerated libraries (numpy, pandas, scipy, pyabf,
\* seaborn, matplotlib), with no other entry.
C1_ExactlySixDependencies ==
    pc = "done" => Range(dist.install_requires) = EnumeratedLibraries

\* C2: whatever the manifest's directory holds, the distribution declared
\* by the setup() call is named 'patchclamp' and has version '0.1'.
C2_NameAndVersionFixed ==
    pc = "done" => dist.name = "patchclamp" /\ dist.version = "0.1"

\* C2 witness: setup() has run in a directory that does hold packages, and
\* the name and version are still the literals.
C2_Witness ==
    /\ pc = "done"
    /\ find_packages(tree) # {}
    /\ dist.name = "patchclamp"
    /\ dist.version = "0.1"

\* C3: the setup() call passes none of entry_points, scripts and
\* console_scripts, so the distribution registers no executable command.
C3_NoCommandLineInterface ==
    pc = "done" =>
        /\ DOMAIN dist \cap CommandKeywords = {}
        /\ RegisteredCommands(dist) = {}

\* C3 witness: setup() has been called with its five keyword arguments.
C3_Witness ==
    /\ pc = "done"
    /\ setup_calls = 1
    /\ DOMAIN dist =
         {"name", "version", "author", "packages", "install_requires"}

\* C4: when the manifest's directory holds no directory with an
\* __init__.py, as in the repository as given, the package set that
\* find_packages() hands to setup() is empty.
C4_NoPackagesInGivenRepository ==
    pc = "done" /\ NoPackageDir(tree) => dist.packages = {}

\* C4 witness: setup() has run in a directory with no subdirectory at all
\* (the repository as given) and received an empty package set.
C4_Witness ==
    /\ pc = "done"
    /\ \A i \in DOMAIN tree : tree[i].top = "absent"
    /\ dist.packages = {}

\* C5: an execution of the manifest calls setup() exactly once: no call has
\* been made before the setup statement is reached, one has been made when
\* the script ends, and never more than one.
C5_ExactlyOneSetupCall ==
    setup_calls = IF pc = "done" THEN 1 ELSE 0

\* C5 witness: the script has run to its end through its three statements.
C5_Witness ==
    /\ pc = "done"
    /\ namespace = {"find_packages", "setup"}
    /\ setup_calls = 1
    /\ dist # NoDist

\* C6: every entry of install_requires is a bare distribution name (a
\* non-empty name followed by nothing: no extra, version specifier or
\* marker), and no name appears twice.
C6_BareDistinctRequirements ==
    pc = "done" =>
        LET reqs == dist.install_requires IN
        /\ \A i \in DOMAIN reqs :
              /\ RequirementName(reqs[i]) # <<>>
              /\ RequirementRest(reqs[i]) = <<>>
        /\ \A i, j \in DOMAIN reqs :
              RequirementName(reqs[i]) = RequirementName(reqs[j]) => i = j

\* C6 witness: setup() has received the seven entries of the list.
C6_Witness ==
    /\ pc = "done"
    /\ Len(dist.install_requires) = 7
    /\ RequirementName(dist.install_requires[5]) = glob

====
